---- MODULE Spec2Model ----
(***************************************************************************)
(* logrus-logstash-hook: the asynchronous shipping pipeline.               *)
(*                                                                         *)
(*   Hook.Fire (producers)  --entryChan-->  processEntryData (one Sender)  *)
(*                                                                         *)
(* Producers merge the hook's default fields into the entry, encode the    *)
(* entry with LogstashWriter.WriteWithPrefix into a pooled buffer, offer   *)
(* the buffer to entryChan without blocking and strip the hook-only        *)
(* fields from the entry.  The Sender takes tasks off entryChan, writes    *)
(* them through connPool (redialling once) and puts the buffer back.       *)
(*                                                                         *)
(* Strings are TLA+ strings; a Go map is a function whose domain is a set  *)
(* of strings; a Go interface{} value is a record [kind, v].               *)
(***************************************************************************)
EXTENDS Integers, Sequences, FiniteSets, TLC

(***************************************************************************)
(* Bounds of the model.                                                    *)
(***************************************************************************)
\* Capacity of entryChan.  The source makes the channel with 1000 slots;
\* every statement below is made for the capacity named here.
QueueCap == 2
\* Fire calls made in one behaviour of Spec.
MaxFires == 3
\* Fields of an entry handed to Fire in SpecSeq.
MaxFields == 2
\* Mutator calls (WithPrefix, WithField, WithFields) in one behaviour.
MaxMutations == 1

Producers == {"p1", "p2"}

\* Buffers that can be referenced at once: one per producer, one per
\* channel slot, one held by the Sender.
BufIds == 1 .. (Cardinality(Producers) + QueueCap + 1)

(***************************************************************************)
(* Values of logrus.Fields (map[string]interface{}) and their JSON form.   *)
(***************************************************************************)
StrV(s) == [kind |-> "string", v |-> s]
\* a value implementing error; v is what Error() returns
ErrV(s) == [kind |-> "error", v |-> s]
\* a value encoding/json cannot marshal (a channel)
ChanV == [kind |-> "chan", v |-> ""]

EmptyFields == [k \in {} |-> StrV("")]

\* m with key k set to v (Go: m[k] = v)
MapSet(m, k, v) == [x \in (DOMAIN m) \cup {k} |-> IF x = k THEN v ELSE m[x]]

\* strings.HasPrefix
HasPrefix(s, p) == Len(p) <= Len(s) /\ SubSeq(s, 1, Len(p)) = p

\* strings.TrimPrefix
TrimPrefix(s, p) == IF HasPrefix(s, p) THEN SubSeq(s, Len(p) + 1, Len(s)) ELSE s

\* logrus.Level.String()
LevelString(l) ==
    CASE l = 0 -> "panic"
      [] l = 1 -> "fatal"
      [] l = 2 -> "error"
      [] l = 3 -> "warning"
      [] l = 4 -> "info"
      [] OTHER -> "debug"

\* the layout used when LogstashWriter.TimestampFormat is empty
defaultTimestampFormat == "2006-01-02T15:04:05Z07:00"

\* time.Time.Format: the instant t rendered in the given layout
TimeFormat(t, layout) == layout \o "@" \o t

(***************************************************************************)
(* LogstashWriter.WriteWithPrefix                                          *)
(***************************************************************************)
\* a copy loop that forgets to strip the prefix
OutKey_NoStrip(k, prefix) == k

\* the key a record field is copied under (lines 29-31)
OutKey(k, prefix) == IF prefix # "" /\ HasPrefix(k, prefix) THEN TrimPrefix(k, prefix) ELSE k

\* the value a record field is copied as (lines 33-40)
OutValue(v) == IF v.kind = "error" THEN StrV(v.v) ELSE v

\* The copy loop of lines 26-41.  Go ranges over a map in an unspecified
\* order, so when two keys of data share an output key either may be the
\* one written last: the result is any map that takes, for each output
\* key, the value of one of the fields copied under it.
CopiedFields(data, prefix) ==
    LET outs == {OutKey(k, prefix) : k \in DOMAIN data}
        vals == {OutValue(data[k]) : k \in DOMAIN data}
    IN  {f \in [outs -> vals] :
            \A o \in outs : \E k \in DOMAIN data :
                OutKey(k, prefix) = o /\ f[o] = OutValue(data[k])}

\* a schema step that overwrites level without keeping the record's own
SchemaFields_LevelNotKept(w, entry, copied) ==
    LET f1 == MapSet(copied, "@version", StrV("1"))
        fmt == IF w.TimestampFormat = "" THEN defaultTimestampFormat ELSE w.TimestampFormat
        f2 == MapSet(f1, "@timestamp", StrV(TimeFormat(entry.Time, fmt)))
        f3 == IF "message" \in DOMAIN entry.Data
              THEN MapSet(f2, "fields.message", entry.Data["message"]) ELSE f2
        f4 == MapSet(f3, "message", StrV(entry.Message))
        f6 == MapSet(f4, "level", StrV(LevelString(entry.Level)))
        f7 == IF "type" \in DOMAIN entry.Data
              THEN MapSet(f6, "fields.type", entry.Data["type"]) ELSE f6
    IN  IF w.Type # "" THEN MapSet(f7, "type", StrV(w.Type)) ELSE f6

\* lines 43-74 applied to the copied fields
SchemaFields(w, entry, copied) ==
    LET f1 == MapSet(copied, "@version", StrV("1"))
        fmt == IF w.TimestampFormat = "" THEN defaultTimestampFormat ELSE w.TimestampFormat
        f2 == MapSet(f1, "@timestamp", StrV(TimeFormat(entry.Time, fmt)))
        f3 == IF "message" \in DOMAIN entry.Data
              THEN MapSet(f2, "fields.message", entry.Data["message"]) ELSE f2
        f4 == MapSet(f3, "message", StrV(entry.Message))
        f5 == IF "level" \in DOMAIN entry.Data
              THEN MapSet(f4, "fields.level", entry.Data["level"]) ELSE f4
        f6 == MapSet(f5, "level", StrV(LevelString(entry.Level)))
        f7 == IF "type" \in DOMAIN entry.Data
              THEN MapSet(f6, "fields.type", entry.Data["type"]) ELSE f6
    IN  IF w.Type # "" THEN MapSet(f7, "type", StrV(w.Type)) ELSE f6

\* encoding/json on one value: a string becomes a JSON string, a struct
\* without exported fields (a bare error) becomes the empty object
Marshal(v) ==
    IF v.kind = "string" THEN [json |-> "string", text |-> v.v]
    ELSE [json |-> "object", text |-> "{}"]

\* json.Encoder.Encode fails on a value it cannot marshal
Marshallable(fields) == \A k \in DOMAIN fields : fields[k].kind # "chan"

\* the JSON object written for a fields mapping
Document(fields) == [k \in DOMAIN fields |-> Marshal(fields[k])]

\* What WriteWithPrefix appends to the writer: the object and the newline
\* of Encoder.Encode, then the "\n" of line 81.
Written(fields) == << [doc |-> Document(fields)], [nl |-> 1], [nl |-> 1] >>

\* The possible results of WriteWithPrefix(writer, entry, prefix): the
\* fields mapping it built, the error it returns ("" is nil) and what it
\* appended to the writer.  A bytes.Buffer never fails a Write.
WriteWithPrefix(w, entry, prefix) ==
    {[fields |-> f,
      err    |-> IF Marshallable(f) THEN "" ELSE "Failed to marshal fields to JSON",
      out    |-> IF Marshallable(f) THEN Written(f) ELSE << >>] :
        f \in {SchemaFields(w, entry, c) : c \in CopiedFields(entry.Data, prefix)}}

(***************************************************************************)
(* Hook                                                                    *)
(***************************************************************************)
NewHookWithFieldsAndPrefix(protocol, address, appName, alwaysSentFields, prefix) ==
    [protocol |-> protocol, address |-> address, filtering |-> FALSE,
     appName |-> appName, alwaysSentFields |-> alwaysSentFields,
     hookOnlyPrefix |-> prefix]

NewFilterHookWithPrefix(prefix) ==
    [protocol |-> "", address |-> "", filtering |-> TRUE,
     appName |-> "", alwaysSentFields |-> EmptyFields,
     hookOnlyPrefix |-> prefix]

\* Hook.filterHookOnly: entry.Data after the deletions
filterHookOnly(h, data) ==
    IF h.hookOnlyPrefix # ""
    THEN [k \in {x \in DOMAIN data : ~HasPrefix(x, h.hookOnlyPrefix)} |-> data[k]]
    ELSE data

\* a merge in which the defaults overwrite the entry's own fields
MergeDefaults_DefaultsWin(h, data) ==
    [k \in (DOMAIN data) \cup (DOMAIN h.alwaysSentFields) |->
        IF k \in DOMAIN h.alwaysSentFields THEN h.alwaysSentFields[k] ELSE data[k]]

\* Fire, lines 96-101: entry.Data after the defaults are added
MergeDefaults(h, data) ==
    [k \in (DOMAIN data) \cup (DOMAIN h.alwaysSentFields) |->
        IF k \in DOMAIN data THEN data[k] ELSE h.alwaysSentFields[k]]

\* a send that makes room by dropping the oldest task of a full channel
TrySend_DropOldest(q, m) ==
    IF Len(q) < QueueCap THEN Append(q, m) ELSE Append(Tail(q), m)

\* a send whose capacity test is off by one
TrySend_OffByOne(q, m) == IF Len(q) <= QueueCap THEN Append(q, m) ELSE q

\* Fire, lines 116-119: the channel after the non-blocking send of m
TrySend(q, m) == IF Len(q) < QueueCap THEN Append(q, m) ELSE q

\* the key of connPool for a send task
PoolKey(d) == d.protocol \o ":" \o d.address

(***************************************************************************)
(* State                                                                   *)
(***************************************************************************)
VARIABLES
    hooks,       \* hook name -> Hook
    pc,          \* producer -> where its Fire call stands
    call,        \* producer -> the locals of its Fire call (and its result)
    entryChan,   \* the buffered channel: a sequence of sendMessage
    formatBuff,  \* the sync.Pool: the buffers that were Put and not taken
    heap,        \* buffer -> the contents of the bytes.Buffer
    connPool,    \* endpoint key -> the connection stored for it
    sender,      \* the locals of processEntryData / sendDataAndRetry
    wire,        \* the conn.Write attempted in the last step
    stderr,      \* number of messages written to os.Stderr
    ret,         \* the Fire call that returned in the last step, as its caller sees it
    hist         \* counters of what has happened (history only)

vars == << hooks, pc, call, entryChan, formatBuff, heap, connPool, sender,
           wire, stderr, ret, hist >>

NoCall == [h |-> "", entry |-> [Data |-> EmptyFields, Message |-> "", Level |-> 0, Time |-> ""],
           given |-> EmptyFields, buff |-> 0]

\* What the caller of Fire has when the call returns: the error returned
\* ("" is nil) and its entry's Data after the deferred filterHookOnly ran
\* on data.  hook (the Hook during the call), given (the Data handed in)
\* and how (where Fire returned) are history.
Returned(hook, given, data, err, how) ==
    [hook |-> hook, given |-> given, Data |-> filterHookOnly(hook, data),
     err |-> err, how |-> how]

NoReturn == [hook |-> NewFilterHookWithPrefix(""), given |-> EmptyFields, Data |-> EmptyFields,
             err |-> "", how |-> "none"]

NoConn == [ep |-> "", id |-> 0]

NoTask == [protocol |-> "", address |-> "", data |-> 0, seq |-> 0]

NoWrite == [conn |-> NoConn, seq |-> 0]

\* the Sender between two tasks
NoSender == [pc |-> "recv", d |-> NoTask, err |-> "", pooled |-> FALSE,
             dials |-> 0, writes |-> 0, dialOk |-> FALSE, lastOk |-> FALSE]


\* the writer Fire builds at line 110
HookWriter(h) == [Type |-> h.appName, TimestampFormat |-> ""]

\* the sendMessage Fire builds at line 117; seq numbers the accepted tasks
\* (history only, no code reads it)
sendMessage(h, buff) ==
    [protocol |-> h.protocol, address |-> h.address, data |-> buff,
     seq |-> hist.accepted + 1]

\* the buffers something still refers to
InFlight == sender.pc \in {"write1", "dial", "write2", "put"}

Referenced ==
    formatBuff
    \cup {call[p].buff : p \in {q \in Producers : pc[q] \in {"encode", "send"}}}
    \cup {entryChan[i].data : i \in 1 .. Len(entryChan)}
    \cup (IF InFlight THEN {sender.d.data} ELSE {})

Unreferenced == BufIds \ Referenced

\* a pool that may hand out a buffer something still refers to
PoolGet_InUse == BufIds

\* sync.Pool.Get: a buffer that was Put, or (New) a buffer nothing refers
\* to.  The pool promises no more than that: it may run New although
\* buffers were Put.
PoolGet == formatBuff \cup (IF Unreferenced = {} THEN {}
                            ELSE {CHOOSE b \in Unreferenced : \A c \in Unreferenced : b <= c})

\* getFormatBuf: the buffer's contents after b.Reset()
ResetBuf(contents) == << >>

EndpointKeys == {PoolKey(hooks[h]) : h \in {x \in DOMAIN hooks : ~hooks[x].filtering}}

(***************************************************************************)
(* Hook.Fire.  What Fire does to the caller's entry and to its own locals  *)
(* is invisible to every other goroutine, so a step of the model runs      *)
(* Fire up to and including its next access to the pool, the buffer or     *)
(* the channel.                                                            *)
(***************************************************************************)
\* Fire on a filtering hook, lines 92-106 and the deferred filterHookOnly:
\* the defaults are merged, Fire returns nil, the hook-only fields go
FireFiltering(p, h, e) ==
    /\ pc[p] = "idle"
    /\ hooks[h].filtering
    /\ hist.fires < MaxFires
    /\ ret' = Returned(hooks[h], e.Data, MergeDefaults(hooks[h], e.Data), "", "filtered")
    /\ hist' = [hist EXCEPT !.fires = @ + 1]
    /\ wire' = NoWrite
    /\ UNCHANGED << hooks, pc, call, entryChan, formatBuff, heap, connPool, sender, stderr >>

\* a Fire that does not look at h.filtering
FireBorrow_NoFilterCheck(p, h, e) ==
    /\ pc[p] = "idle"
    /\ hist.fires < MaxFires
    /\ \E b \in PoolGet :
          /\ formatBuff' = formatBuff \ {b}
          /\ heap' = [heap EXCEPT ![b] = ResetBuf(@)]
          /\ call' = [call EXCEPT ![p] =
                        [h |-> h,
                         entry |-> [e EXCEPT !.Data = MergeDefaults(hooks[h], e.Data)],
                         given |-> e.Data, buff |-> b]]
    /\ pc' = [pc EXCEPT ![p] = "encode"]
    /\ hist' = [hist EXCEPT !.fires = @ + 1]
    /\ ret' = NoReturn
    /\ wire' = NoWrite
    /\ UNCHANGED << hooks, entryChan, connPool, sender, stderr >>

\* a Fire that dials the hook's endpoint itself and stores the connection
FireBorrow_DialsEndpoint(p, h, e) ==
    /\ pc[p] = "idle"
    /\ ~hooks[h].filtering
    /\ hist.fires < MaxFires
    /\ \E b \in PoolGet :
          /\ formatBuff' = formatBuff \ {b}
          /\ heap' = [heap EXCEPT ![b] = ResetBuf(@)]
          /\ call' = [call EXCEPT ![p] =
                        [h |-> h,
                         entry |-> [e EXCEPT !.Data = MergeDefaults(hooks[h], e.Data)],
                         given |-> e.Data, buff |-> b]]
    /\ connPool' = [connPool EXCEPT ![PoolKey(hooks[h])] =
                        [ep |-> PoolKey(hooks[h]), id |-> @.id + 1]]
    /\ pc' = [pc EXCEPT ![p] = "encode"]
    /\ hist' = [hist EXCEPT !.fires = @ + 1]
    /\ ret' = NoReturn
    /\ wire' = NoWrite
    /\ UNCHANGED << hooks, entryChan, sender, stderr >>

\* Fire on a shipping hook, lines 92-108: the defaults are merged into the
\* caller's entry and getFormatBuf takes a buffer and resets it
FireBorrow(p, h, e) ==
    /\ pc[p] = "idle"
    /\ ~hooks[h].filtering
    /\ hist.fires < MaxFires
    /\ \E b \in PoolGet :
          /\ formatBuff' = formatBuff \ {b}
          /\ heap' = [heap EXCEPT ![b] = ResetBuf(@)]
          /\ call' = [call EXCEPT ![p] =
                        [h |-> h,
                         entry |-> [e EXCEPT !.Data = MergeDefaults(hooks[h], e.Data)],
                         given |-> e.Data, buff |-> b]]
    /\ pc' = [pc EXCEPT ![p] = "encode"]
    /\ hist' = [hist EXCEPT !.fires = @ + 1]
    /\ ret' = NoReturn
    /\ wire' = NoWrite
    /\ UNCHANGED << hooks, entryChan, connPool, sender, stderr >>

\* a Fire whose filterHookOnly is not deferred: it is skipped when the
\* encoder fails
FireEncode_FilterNotDeferred(p) ==
    /\ pc[p] = "encode"
    /\ LET h == hooks[call[p].h]
           b == call[p].buff
       IN \E r \in WriteWithPrefix(HookWriter(h), call[p].entry, h.hookOnlyPrefix) :
            IF r.err # ""
            THEN /\ pc' = [pc EXCEPT ![p] = "idle"]
                 /\ call' = [call EXCEPT ![p] = NoCall]
                 /\ ret' = [hook |-> h, given |-> call[p].given,
                            Data |-> call[p].entry.Data, err |-> r.err,
                            how |-> "encode-error"]
                 /\ heap' = [heap EXCEPT ![b] = << >>]
            ELSE /\ pc' = [pc EXCEPT ![p] = "send"]
                 /\ call' = call
                 /\ ret' = NoReturn
                 /\ heap' = [heap EXCEPT ![b] = @ \o r.out]
    /\ wire' = NoWrite
    /\ UNCHANGED << hooks, entryChan, formatBuff, connPool, sender, stderr, hist >>

\* lines 110-114: WriteWithPrefix into the buffer; on an error Fire returns
\* it (the deferred filter runs, the buffer is referenced by nothing)
FireEncode(p) ==
    /\ pc[p] = "encode"
    /\ LET h == hooks[call[p].h]
           b == call[p].buff
       IN \E r \in WriteWithPrefix(HookWriter(h), call[p].entry, h.hookOnlyPrefix) :
            IF r.err # ""
            THEN /\ pc' = [pc EXCEPT ![p] = "idle"]
                 /\ call' = [call EXCEPT ![p] = NoCall]
                 /\ ret' = Returned(h, call[p].given, call[p].entry.Data, r.err,
                                    "encode-error")
                 /\ heap' = [heap EXCEPT ![b] = << >>]
            ELSE /\ pc' = [pc EXCEPT ![p] = "send"]
                 /\ call' = call
                 /\ ret' = NoReturn
                 /\ heap' = [heap EXCEPT ![b] = @ \o r.out]
    /\ wire' = NoWrite
    /\ UNCHANGED << hooks, entryChan, formatBuff, connPool, sender, stderr, hist >>

\* a send that reports a full channel to the caller
FireSend_ErrorOnDrop(p) ==
    /\ pc[p] = "send"
    /\ LET h == hooks[call[p].h]
           b == call[p].buff
           accepted == Len(TrySend(entryChan, sendMessage(h, b))) > Len(entryChan)
       IN /\ entryChan' = TrySend(entryChan, sendMessage(h, b))
          /\ call' = [call EXCEPT ![p] = NoCall]
          /\ ret' = Returned(h, call[p].given, call[p].entry.Data,
                             IF accepted THEN "" ELSE "queue full",
                             IF accepted THEN "enqueued" ELSE "dropped")
          /\ heap' = IF accepted THEN heap ELSE [heap EXCEPT ![b] = << >>]
          /\ hist' = IF accepted THEN [hist EXCEPT !.accepted = @ + 1]
                                 ELSE [hist EXCEPT !.dropped = @ + 1]
    /\ pc' = [pc EXCEPT ![p] = "idle"]
    /\ wire' = NoWrite
    /\ UNCHANGED << hooks, formatBuff, connPool, sender, stderr >>

\* lines 116-121 and the deferred filterHookOnly: the non-blocking send;
\* a buffer that was not accepted is referenced by nothing
FireSend(p) ==
    /\ pc[p] = "send"
    /\ LET h == hooks[call[p].h]
           b == call[p].buff
           accepted == Len(TrySend(entryChan, sendMessage(h, b))) > Len(entryChan)
       IN /\ entryChan' = TrySend(entryChan, sendMessage(h, b))
          /\ call' = [call EXCEPT ![p] = NoCall]
          /\ ret' = Returned(h, call[p].given, call[p].entry.Data, "",
                             IF accepted THEN "enqueued" ELSE "dropped")
          /\ heap' = IF accepted THEN heap ELSE [heap EXCEPT ![b] = << >>]
          /\ hist' = IF accepted THEN [hist EXCEPT !.accepted = @ + 1]
                                 ELSE [hist EXCEPT !.dropped = @ + 1]
    /\ pc' = [pc EXCEPT ![p] = "idle"]
    /\ wire' = NoWrite
    /\ UNCHANGED << hooks, formatBuff, connPool, sender, stderr >>

(***************************************************************************)
(* Hook mutators.  They write the Hook without synchronisation, so they    *)
(* are called while no Fire on the hook is running (the setup phase).      *)
(***************************************************************************)
Quiet(h) == \A p \in Producers : call[p].h # h

WithPrefix(h, prefix) ==
    /\ Quiet(h)
    /\ hist.mutations < MaxMutations
    /\ hooks' = [hooks EXCEPT ![h].hookOnlyPrefix = prefix]
    /\ hist' = [hist EXCEPT !.mutations = @ + 1]
    /\ ret' = NoReturn
    /\ wire' = NoWrite
    /\ UNCHANGED << pc, call, entryChan, formatBuff, heap, connPool, sender, stderr >>

WithField(h, key, value) ==
    /\ Quiet(h)
    /\ hist.mutations < MaxMutations
    /\ hooks' = [hooks EXCEPT ![h].alwaysSentFields = MapSet(@, key, value)]
    /\ hist' = [hist EXCEPT !.mutations = @ + 1]
    /\ ret' = NoReturn
    /\ wire' = NoWrite
    /\ UNCHANGED << pc, call, entryChan, formatBuff, heap, connPool, sender, stderr >>

\* a WithFields that replaces the defaults by its argument
WithFields_Replace(h, fields) ==
    /\ Quiet(h)
    /\ hist.mutations < MaxMutations
    /\ hooks' = [hooks EXCEPT ![h].alwaysSentFields = fields]
    /\ hist' = [hist EXCEPT !.mutations = @ + 1]
    /\ ret' = NoReturn
    /\ wire' = NoWrite
    /\ UNCHANGED << pc, call, entryChan, formatBuff, heap, connPool, sender, stderr >>

WithFields(h, fields) ==
    /\ Quiet(h)
    /\ hist.mutations < MaxMutations
    /\ hooks' = [hooks EXCEPT ![h].alwaysSentFields =
                    [k \in (DOMAIN @) \cup (DOMAIN fields) |->
                        IF k \in DOMAIN fields THEN fields[k] ELSE @[k]]]
    /\ hist' = [hist EXCEPT !.mutations = @ + 1]
    /\ ret' = NoReturn
    /\ wire' = NoWrite
    /\ UNCHANGED << pc, call, entryChan, formatBuff, heap, connPool, sender, stderr >>

(***************************************************************************)
(* The Sender: processEntryData and sendDataAndRetry.  connPool and        *)
(* os.Stderr are used by the Sender alone, so a step runs it up to and     *)
(* including its next receive, dial, write or Put.  A dial or a write is   *)
(* one step whose outcome the network decides.                             *)
(***************************************************************************)
\* a receive that takes the newest task of the channel
SenderRecv_Lifo ==
    /\ sender.pc = "recv"
    /\ entryChan # << >>
    /\ LET d == entryChan[Len(entryChan)]
           pooled == connPool[PoolKey(d)] # NoConn
       IN sender' = [NoSender EXCEPT !.pc = IF pooled THEN "write1" ELSE "dial",
                                     !.d = d, !.pooled = pooled]
    /\ entryChan' = SubSeq(entryChan, 1, Len(entryChan) - 1)
    /\ hist' = [hist EXCEPT !.dequeued = @ + 1]
    /\ ret' = NoReturn
    /\ wire' = NoWrite
    /\ UNCHANGED << hooks, pc, call, formatBuff, heap, connPool, stderr >>

\* lines 142 and 152-153: the next task is received and its connection
\* looked up
SenderRecv ==
    /\ sender.pc = "recv"
    /\ entryChan # << >>
    /\ LET d == Head(entryChan)
           pooled == connPool[PoolKey(d)] # NoConn
       IN sender' = [NoSender EXCEPT !.pc = IF pooled THEN "write1" ELSE "dial",
                                     !.d = d, !.pooled = pooled]
    /\ entryChan' = Tail(entryChan)
    /\ hist' = [hist EXCEPT !.dequeued = @ + 1]
    /\ ret' = NoReturn
    /\ wire' = NoWrite
    /\ UNCHANGED << hooks, pc, call, formatBuff, heap, connPool, stderr >>

\* the record of a conn.Write of the task in flight
WriteOf(conn) == [conn |-> conn, seq |-> sender.d.seq]

\* lines 154-157: the write on the pooled connection
SenderPooledWrite ==
    /\ sender.pc = "write1"
    /\ wire' = WriteOf(connPool[PoolKey(sender.d)])
    /\ \E ok \in BOOLEAN :
         sender' = [sender EXCEPT !.writes = @ + 1,
                                  !.lastOk = ok,
                                  !.pc = IF ok THEN "put" ELSE "dial"]
    /\ ret' = NoReturn
    /\ UNCHANGED << hooks, pc, call, entryChan, formatBuff, heap, connPool, stderr, hist >>

\* a dial that takes the old connection out of the pool when it fails
SenderDial_EvictOnFailure ==
    /\ sender.pc = "dial"
    /\ \E ok \in BOOLEAN :
         IF ok
         THEN /\ connPool' = [connPool EXCEPT ![PoolKey(sender.d)] =
                                [ep |-> PoolKey(sender.d), id |-> @.id + 1]]
              /\ sender' = [sender EXCEPT !.dials = @ + 1, !.dialOk = TRUE, !.pc = "write2"]
         ELSE /\ connPool' = [connPool EXCEPT ![PoolKey(sender.d)] = NoConn]
              /\ sender' = [sender EXCEPT !.dials = @ + 1, !.err = "dial", !.pc = "put"]
    /\ ret' = NoReturn
    /\ wire' = NoWrite
    /\ UNCHANGED << hooks, pc, call, entryChan, formatBuff, heap, stderr, hist >>

\* lines 159-164: net.Dial; a new connection (numbered after the one it
\* replaces, to tell them apart) is stored in the pool
SenderDial ==
    /\ sender.pc = "dial"
    /\ \E ok \in BOOLEAN :
         IF ok
         THEN /\ connPool' = [connPool EXCEPT ![PoolKey(sender.d)] =
                                [ep |-> PoolKey(sender.d), id |-> @.id + 1]]
              /\ sender' = [sender EXCEPT !.dials = @ + 1, !.dialOk = TRUE, !.pc = "write2"]
         ELSE /\ connPool' = connPool
              /\ sender' = [sender EXCEPT !.dials = @ + 1, !.err = "dial", !.pc = "put"]
    /\ ret' = NoReturn
    /\ wire' = NoWrite
    /\ UNCHANGED << hooks, pc, call, entryChan, formatBuff, heap, stderr, hist >>

\* a retry that dials again when the write on the new connection fails
SenderRetryWrite_Loop ==
    /\ sender.pc = "write2"
    /\ wire' = [conn |-> connPool[PoolKey(sender.d)], seq |-> sender.d.seq]
    /\ \E ok \in BOOLEAN :
         sender' = [sender EXCEPT !.writes = @ + 1,
                                  !.lastOk = ok,
                                  !.pc = IF ok THEN "put" ELSE "dial"]
    /\ ret' = NoReturn
    /\ UNCHANGED << hooks, pc, call, entryChan, formatBuff, heap, connPool, stderr, hist >>

\* a write on the new connection that takes it out of the pool when it fails
SenderRetryWrite_DropOnFailure ==
    /\ sender.pc = "write2"
    /\ wire' = WriteOf(connPool[PoolKey(sender.d)])
    /\ \E ok \in BOOLEAN :
         /\ sender' = [sender EXCEPT !.writes = @ + 1,
                                     !.lastOk = ok,
                                     !.err = IF ok THEN "" ELSE "write",
                                     !.pc = "put"]
         /\ connPool' = IF ok THEN connPool
                        ELSE [connPool EXCEPT ![PoolKey(sender.d)] = NoConn]
    /\ ret' = NoReturn
    /\ UNCHANGED << hooks, pc, call, entryChan, formatBuff, heap, stderr, hist >>

\* line 165: the one write on the connection just dialled
SenderRetryWrite ==
    /\ sender.pc = "write2"
    /\ wire' = WriteOf(connPool[PoolKey(sender.d)])
    /\ \E ok \in BOOLEAN :
         sender' = [sender EXCEPT !.writes = @ + 1,
                                  !.lastOk = ok,
                                  !.err = IF ok THEN "" ELSE "write",
                                  !.pc = "put"]
    /\ ret' = NoReturn
    /\ UNCHANGED << hooks, pc, call, entryChan, formatBuff, heap, connPool, stderr, hist >>

\* a loop that reports an error and goes on without the Put
SenderPut_OnlyOnSuccess ==
    /\ sender.pc = "put"
    /\ formatBuff' = IF sender.err # "" THEN formatBuff ELSE formatBuff \cup {sender.d.data}
    /\ stderr' = IF sender.err # "" THEN stderr + 1 ELSE stderr
    /\ sender' = NoSender
    /\ hist' = IF sender.err # "" THEN hist ELSE [hist EXCEPT !.finished = @ + 1]
    /\ ret' = NoReturn
    /\ wire' = NoWrite
    /\ UNCHANGED << hooks, pc, call, entryChan, heap, connPool >>

\* a loop that ends when a send fails
SenderPut_StopOnError ==
    /\ sender.pc = "put"
    /\ formatBuff' = formatBuff \cup {sender.d.data}
    /\ stderr' = IF sender.err # "" THEN stderr + 1 ELSE stderr
    /\ sender' = IF sender.err # "" THEN [NoSender EXCEPT !.pc = "stopped"] ELSE NoSender
    /\ hist' = [hist EXCEPT !.finished = @ + 1]
    /\ ret' = NoReturn
    /\ wire' = NoWrite
    /\ UNCHANGED << hooks, pc, call, entryChan, heap, connPool >>

\* lines 144-147: the buffer goes back to the pool and an error is written
\* to os.Stderr; the task's locals are dead after it
SenderPut ==
    /\ sender.pc = "put"
    /\ formatBuff' = formatBuff \cup {sender.d.data}
    /\ stderr' = IF sender.err # "" THEN stderr + 1 ELSE stderr
    /\ sender' = NoSender
    /\ hist' = [hist EXCEPT !.finished = @ + 1]
    /\ ret' = NoReturn
    /\ wire' = NoWrite
    /\ UNCHANGED << hooks, pc, call, entryChan, heap, connPool >>

sendDataAndRetry ==
    \/ SenderPooledWrite
    \/ SenderDial
    \/ SenderRetryWrite

processEntryData ==
    \/ SenderRecv
    \/ sendDataAndRetry
    \/ SenderPut

(***************************************************************************)
(* Spec: two hooks that ship to different endpoints and a filtering hook,  *)
(* used by concurrent producers while the Sender runs.                     *)
(***************************************************************************)
Fields1(k, v) == [x \in {k} |-> v]

Fields2(k1, v1, k2, v2) == [x \in {k1, k2} |-> IF x = k1 THEN v1 ELSE v2]

NewEntry(data, message, level, time) ==
    [Data |-> data, Message |-> message, Level |-> level, Time |-> time]

\* the hooks of TestFire and TestFireFilterHook, and a hook with no type
\* label, no defaults and no prefix on a second endpoint
SpecHooks ==
    [h \in {"fire", "plain", "filter"} |->
        CASE h = "fire" ->
               NewHookWithFieldsAndPrefix("udp", "localhost:9999", "fire_test",
                   Fields2("->ignore", StrV("haaa"), "override", StrV("no")), "->")
          [] h = "plain" ->
               NewHookWithFieldsAndPrefix("tcp", "logs:5000", "", EmptyFields, "")
          [] OTHER ->
               [NewFilterHookWithPrefix("_") EXCEPT !.alwaysSentFields =
                   Fields2("_ignore", StrV("haaa"), "override", StrV("no"))]]

GoodEntry ==
    NewEntry(Fields2("override", StrV("yes"), "_name", StrV("slimshady")),
             "hello world!", 5, "T0")

\* an entry with a field encoding/json cannot marshal
BadEntry == NewEntry(Fields1("ch", ChanV), "hello world!", 5, "T0")

\* the Fire calls made: << hook, entry >>
SpecCalls == {<< "fire", GoodEntry >>, << "fire", BadEntry >>,
              << "plain", GoodEntry >>, << "filter", GoodEntry >>}

NoHist == [fires |-> 0, mutations |-> 0, accepted |-> 0, dropped |-> 0,
           dequeued |-> 0, finished |-> 0]

InitPipeline ==
    /\ pc = [p \in Producers |-> "idle"]
    /\ call = [p \in Producers |-> NoCall]
    /\ entryChan = << >>
    /\ formatBuff = {}
    /\ heap = [b \in BufIds |-> << >>]
    /\ sender = NoSender
    /\ wire = NoWrite
    /\ stderr = 0
    /\ ret = NoReturn
    /\ hist = NoHist

Init ==
    /\ hooks = SpecHooks
    /\ connPool = [k \in EndpointKeys |-> NoConn]
    /\ InitPipeline

Fire ==
    \E p \in Producers :
        \/ \E c \in SpecCalls : FireFiltering(p, c[1], c[2])
        \/ \E c \in SpecCalls : FireBorrow(p, c[1], c[2])
        \/ FireEncode(p)
        \/ FireSend(p)

Next == Fire \/ processEntryData

Spec == Init /\ [][Next]_vars

\* Spec with the scheduling the Sender has: the goroutine started by init
\* runs for the life of the process, and a receive from a non-empty
\* channel, a dial, a write and a Put each return
FairSpec == Spec /\ WF_vars(processEntryData)

\* SpecMut: one caller fires at the hooks of Spec and, between its Fire
\* calls, reconfigures the filtering hook; the Sender runs.
FireMut ==
    \/ \E c \in SpecCalls : FireFiltering("p1", c[1], c[2])
    \/ \E c \in SpecCalls : FireBorrow("p1", c[1], c[2])
    \/ FireEncode("p1")
    \/ FireSend("p1")

Reconfigure ==
    \/ \E x \in {"", "_"} : WithPrefix("filter", x)
    \/ WithField("filter", "override", StrV("new"))
    \/ WithFields("filter", Fields1("extra", StrV("new")))

NextMut == FireMut \/ Reconfigure \/ processEntryData

SpecMut == Init /\ [][NextMut]_vars

(***************************************************************************)
(* SpecSeq: one caller builds a hook with a constructor, may change it     *)
(* with the mutators and fires one entry at it; the Sender runs.  The      *)
(* hook and the entry range over the cases of the encoder.                 *)
(***************************************************************************)
SeqPrefixes == {"", "->"}

SeqDefaults ==
    {EmptyFields, Fields1("x", StrV("no")), Fields1("->x", StrV("no")),
     Fields1("type", StrV("no"))}

SeqHooks ==
    {NewHookWithFieldsAndPrefix("udp", "localhost:9999", a, d, x) :
        a \in {"", "app"}, d \in SeqDefaults, x \in SeqPrefixes}
    \cup {NewFilterHookWithPrefix(x) : x \in SeqPrefixes}

\* the values a field of an entry takes, by its name
SeqValues ==
    [k \in {"message", "level", "type", "x", "->x", "->message", "@version",
            "fields.message"} |->
        CASE k = "message" -> {StrV("yes"), ErrV("boom")}
          [] k = "level" -> {StrV("yes"), ChanV}
          [] k = "x" -> {StrV("yes"), ErrV("boom")}
          [] k \in {"->x", "->message", "fields.message"} -> {StrV("other")}
          [] OTHER -> {StrV("yes")}]

SeqData ==
    UNION {{f \in [S -> UNION {SeqValues[k] : k \in S}] : \A k \in S : f[k] \in SeqValues[k]} :
            S \in {T \in SUBSET (DOMAIN SeqValues) : Cardinality(T) <= MaxFields}}

SeqEntries == {NewEntry(d, "hello world!", 4, "T0") : d \in SeqData}

\* connPool is shared by every hook of the process: the endpoint may have
\* been dialled for an earlier hook
SeqPools ==
    {[k \in EndpointKeys |-> NoConn], [k \in EndpointKeys |-> [ep |-> k, id |-> 1]]}

InitSeq ==
    /\ hooks \in {[h \in {"hook"} |-> c] : c \in SeqHooks}
    /\ connPool \in SeqPools
    /\ InitPipeline

Mutate ==
    \/ \E x \in SeqPrefixes : WithPrefix("hook", x)
    \/ \E k \in {"x", "->x"}, v \in {StrV("no"), StrV("new")} : WithField("hook", k, v)
    \/ \E f \in {Fields1("x", StrV("new")), Fields2("x", StrV("new"), "->x", StrV("new"))} :
          WithFields("hook", f)

FireSeq ==
    \/ hist.fires = 0 /\ \E e \in SeqEntries : FireFiltering("p1", "hook", e)
    \/ hist.fires = 0 /\ \E e \in SeqEntries : FireBorrow("p1", "hook", e)
    \/ FireEncode("p1")
    \/ FireSend("p1")

NextSeq == Mutate \/ FireSeq \/ processEntryData

SpecSeq == InitSeq /\ [][NextSeq]_vars

(***************************************************************************)
(* Steps of the Sender, as the claims speak of them                        *)
(***************************************************************************)
\* the Sender receives a task in this step
Dequeues == hist'.dequeued = hist.dequeued + 1

\* the Sender dials in this step
Dials == sender'.dials = sender.dials + 1

\* the Sender writes to a connection in this step
Writes == sender'.writes = sender.writes + 1

\* a buffer enters the pool in this step
Puts == formatBuff' # formatBuff /\ formatBuff \subseteq formatBuff'

\* producer p leaves Fire's non-blocking send in this step
Sends(p) == pc[p] = "send" /\ pc'[p] = "idle"

(***************************************************************************)
(* C1: a shipping Fire whose encoding succeeded can always take its send   *)
(* step, whatever the other producers and the Sender are doing; the step   *)
(* appends the new task at the tail when the channel holds fewer than      *)
(* QueueCap tasks, leaves the channel as it is when it is full, and Fire   *)
(* returns nil either way.                                                 *)
(***************************************************************************)
C1_SendNeverBlocks ==
    /\ [](\A p \in Producers : pc[p] = "send" => ENABLED FireSend(p))
    /\ [][\A p \in Producers : Sends(p) =>
            /\ ret'.err = ""
            /\ IF Len(entryChan) < QueueCap
               THEN /\ entryChan' = Append(entryChan,
                                           sendMessage(hooks[call[p].h], call[p].buff))
                    /\ ret'.how = "enqueued"
               ELSE /\ entryChan' = entryChan
                    /\ ret'.how = "dropped"]_vars

\* a task was just appended while the Sender sits in a dial or a write and
\* the other producer is inside Fire
C1_Witness ==
    /\ ret.how = "enqueued"
    /\ ret.err = ""
    /\ Len(entryChan) >= 1
    /\ sender.pc \in {"dial", "write1", "write2"}
    /\ \E p \in Producers : pc[p] \in {"encode", "send"}

(***************************************************************************)
(* C2: the channel never holds more than QueueCap tasks; as long as the    *)
(* Sender has received nothing, after N send steps the channel holds       *)
(* min(N, QueueCap) tasks and max(0, N - QueueCap) tasks were dropped.     *)
(***************************************************************************)
C2_QueueBounded ==
    LET n == hist.accepted + hist.dropped
    IN  /\ Len(entryChan) <= QueueCap
        /\ hist.dequeued = 0 =>
              /\ Len(entryChan) = (IF n < QueueCap THEN n ELSE QueueCap)
              /\ hist.dropped = (IF n > QueueCap THEN n - QueueCap ELSE 0)

\* the send made while the channel was at capacity, nothing received yet:
\* one task dropped
C2_Witness ==
    /\ hist.dequeued = 0
    /\ hist.accepted = QueueCap
    /\ hist.dropped = 1
    /\ ret.how = "dropped"
    /\ Len(entryChan) = QueueCap

(***************************************************************************)
(* C3, as the claim states it: a task that finds no pooled connection is   *)
(* dialled once and written once.                                          *)
(***************************************************************************)
C3_Original ==
    /\ sender.dials <= 1
    /\ sender.writes <= 2
    /\ sender.pc = "put" =>
          /\ sender.pooled /\ sender.dials = 1 /\ sender.dialOk => sender.writes = 2
          /\ ~sender.pooled => sender.dials = 1 /\ sender.writes = 1

(***************************************************************************)
(* C3, amended: for the task in flight the Sender dials at most once and   *)
(* writes at most twice.  When its send is over: with a pooled connection  *)
(* whose write failed there was one dial and, if the dial succeeded, one   *)
(* more write (two in all), else none (one in all); with a pooled          *)
(* connection whose write succeeded there was no dial and one write; with  *)
(* no pooled connection there was one dial and, if the dial succeeded,     *)
(* one write, else no write.                                               *)
(***************************************************************************)
C3_OneDialTwoWrites ==
    /\ sender.dials <= 1
    /\ sender.writes <= 2
    /\ sender.pc = "put" =>
          /\ sender.pooled =>
                \/ sender.dials = 0 /\ sender.writes = 1 /\ sender.lastOk
                \/ sender.dials = 1 /\ sender.dialOk /\ sender.writes = 2
                \/ sender.dials = 1 /\ ~sender.dialOk /\ sender.writes = 1
          /\ ~sender.pooled =>
                \/ sender.dials = 1 /\ sender.dialOk /\ sender.writes = 1
                \/ sender.dials = 1 /\ ~sender.dialOk /\ sender.writes = 0
          /\ sender.dialOk => (sender.err = "") = sender.lastOk

\* the write on the pooled connection failed, the redial succeeded and the
\* write on the new connection failed too: the send is over
C3_Witness ==
    /\ sender.pc = "put"
    /\ sender.pooled
    /\ sender.dials = 1
    /\ sender.writes = 2
    /\ sender.err = "write"

(***************************************************************************)
(* C4: the buffer of every received task enters the pool exactly once,     *)
(* after the last dial or write for the task and before the next task is   *)
(* received, however the send ended.                                       *)
(***************************************************************************)
C4_BufferReturnedOnce ==
    /\ [](/\ hist.dequeued = hist.finished + (IF InFlight THEN 1 ELSE 0)
          /\ InFlight => sender.d.data \notin formatBuff)
    /\ [][/\ Dequeues => ~InFlight /\ hist.finished = hist.dequeued
          /\ (Dials \/ Writes) => hist.finished = hist.dequeued - 1
          /\ Puts => /\ sender.pc = "put"
                     /\ formatBuff' = formatBuff \cup {sender.d.data}
                     /\ hist'.finished = hist.finished + 1
                     /\ sender'.pc = "recv"
          /\ (sender.pc = "put" /\ sender'.pc # "put") => Puts]_vars

\* the second task's send ended in a failed write after a redial, and its
\* buffer is back in the pool
C4_Witness ==
    /\ hist.finished = 2
    /\ hist.dequeued = 2
    /\ stderr = 2
    /\ ~InFlight
    /\ Cardinality(formatBuff) = 2

(***************************************************************************)
(* C5: tasks are sent in the order the channel accepted them (seq).  The   *)
(* n-th task received is the n-th accepted, and every dial, write and Put  *)
(* is for the task whose predecessors have all had their buffer returned,  *)
(* so all of them come before any dial or write of a later task.           *)
(***************************************************************************)
C5_Fifo ==
    /\ [](\A i, j \in 1 .. Len(entryChan) : i < j => entryChan[i].seq < entryChan[j].seq)
    /\ [][/\ Dequeues => /\ sender'.d.seq = hist.dequeued + 1
                         /\ hist.finished = hist.dequeued
          /\ Dials => sender.d.seq = hist.finished + 1
          /\ Writes => sender.d.seq = hist.finished + 1 /\ wire'.seq = sender.d.seq
          /\ Puts => sender.d.seq = hist.finished + 1]_vars

\* the first task failed on one endpoint; the second, for the other
\* endpoint, is being dialled while a third waits in the channel
C5_Witness ==
    /\ stderr = 1
    /\ hist.finished = 1
    /\ sender.pc = "dial"
    /\ sender.d.seq = 2
    /\ Len(entryChan) = 1
    /\ entryChan[1].seq = 3
    /\ PoolKey(entryChan[1]) # PoolKey(sender.d)

(***************************************************************************)
(* C6: a Fire on a filtering hook takes no buffer, sends no task and       *)
(* leaves the channel, the buffers, the connection pool and the Sender as  *)
(* they are; it returns nil.  No call on a filtering hook ever stands at   *)
(* the encoder or at the send.                                             *)
(***************************************************************************)
C6_FilteringTouchesNothing ==
    /\ [](\A p \in Producers : pc[p] # "idle" => ~hooks[call[p].h].filtering)
    /\ [][(hist'.fires = hist.fires + 1 /\ pc' = pc) =>
            /\ ret'.how = "filtered"
            /\ ret'.hook.filtering
            /\ ret'.err = ""
            /\ wire' = NoWrite
            /\ UNCHANGED << entryChan, formatBuff, heap, connPool, sender, stderr, call >>]_vars

\* a filtering Fire returned while a task is in flight and another waits
C6_Witness ==
    /\ ret.how = "filtered"
    /\ ret.hook.filtering
    /\ DOMAIN ret.Data # DOMAIN ret.given
    /\ InFlight
    /\ Len(entryChan) >= 1

(***************************************************************************)
(* C7: when Fire returns on a hook with a non-empty prefix, no key of the  *)
(* caller's entry starts with the prefix, wherever Fire returned:          *)
(* filtering hook, task accepted, task dropped, encoder error.             *)
(***************************************************************************)
C7_NoHookOnlyKeyLeft ==
    (ret.how # "none" /\ ret.hook.hookOnlyPrefix # "") =>
        \A k \in DOMAIN ret.Data : ~HasPrefix(k, ret.hook.hookOnlyPrefix)

\* the encoder failed on an entry into which a default with the prefix had
\* been merged
C7_Witness ==
    /\ ret.how = "encode-error"
    /\ ret.err # ""
    /\ ret.hook.hookOnlyPrefix # ""
    /\ \E k \in (DOMAIN ret.hook.alwaysSentFields) \ (DOMAIN ret.given) :
          HasPrefix(k, ret.hook.hookOnlyPrefix)

(***************************************************************************)
(* C8: when Fire returns, the caller's entry holds every field it was      *)
(* given, with the value given, and every default it did not have, with    *)
(* the default's value, but for the keys that start with a non-empty       *)
(* prefix; no step of Fire changes the hook.                               *)
(***************************************************************************)
C8_EntryAfterFire ==
    /\ [](ret.how # "none" =>
            LET R == ret.given
                D == ret.hook.alwaysSentFields
                P == ret.hook.hookOnlyPrefix
                kept == {k \in (DOMAIN R) \cup (DOMAIN D) : P = "" \/ ~HasPrefix(k, P)}
            IN  /\ DOMAIN ret.Data = kept
                /\ \A k \in kept : ret.Data[k] = IF k \in DOMAIN R THEN R[k] ELSE D[k])
    /\ [][(pc' # pc \/ hist'.fires # hist.fires) => hooks' = hooks]_vars

\* a field the entry and the defaults both have, with different values, and
\* a default with the prefix that the entry did not have
C8_Witness ==
    /\ ret.how = "enqueued"
    /\ ret.hook.hookOnlyPrefix # ""
    /\ \E k \in (DOMAIN ret.given) \cap (DOMAIN ret.hook.alwaysSentFields) :
          ret.given[k] # ret.hook.alwaysSentFields[k]
    /\ \E k \in (DOMAIN ret.hook.alwaysSentFields) \ (DOMAIN ret.given) :
          HasPrefix(k, ret.hook.hookOnlyPrefix)

(***************************************************************************)
(* The document of a call that stands at the send (SpecSeq)                *)
(***************************************************************************)
AtSend == pc["p1"] = "send"

\* the JSON object in the buffer of the call
SentDoc == heap[call["p1"].buff][1].doc

\* the record and the hook of the call
SentGiven == call["p1"].given

SentHook == hooks[call["p1"].h]

\* R.fields \cup D, R winning
GivenAndDefaults ==
    [k \in (DOMAIN SentGiven) \cup (DOMAIN SentHook.alwaysSentFields) |->
        IF k \in DOMAIN SentGiven THEN SentGiven[k] ELSE SentHook.alwaysSentFields[k]]

\* a value as JSON text: a string as itself, an error as its description
Json(v) == [json |-> "string", text |-> v.v]

(***************************************************************************)
(* C9, as the claim states it: the document's fields are those of          *)
(* R.fields \cup D (R winning) and the five canonical keys.                *)
(***************************************************************************)
C9_Original ==
    AtSend =>
        LET U == GivenAndDefaults
            canon == {"@version", "@timestamp", "message", "level", "type"}
        IN  /\ DOMAIN SentDoc = (DOMAIN U) \cup canon
            /\ \A k \in (DOMAIN U) \ canon : SentDoc[k] = Json(U[k])

(***************************************************************************)
(* C9, amended: the document's keys are the keys of R.fields \cup D with   *)
(* the hook's prefix stripped, and @version, @timestamp, message, level,   *)
(* and type when the hook has a type label, and fields.K for each K among  *)
(* message, level (and type, with a label) that is a key of R.fields \cup  *)
(* D.  A field of R.fields \cup D whose stripped key is none of the keys   *)
(* the schema writes and is the stripped key of no other field is in the   *)
(* document with its value, R winning over D.                              *)
(***************************************************************************)
C9_DocumentFields ==
    AtSend =>
        LET U == GivenAndDefaults
            P == SentHook.hookOnlyPrefix
            label == SentHook.appName
            strip(k) == IF P # "" /\ HasPrefix(k, P) THEN SubSeq(k, Len(P) + 1, Len(k)) ELSE k
            named == {"message", "level"} \cup (IF label # "" THEN {"type"} ELSE {})
            schema == {"@version", "@timestamp"} \cup named
                      \cup {"fields." \o K : K \in named \cap (DOMAIN U)}
        IN  /\ DOMAIN SentDoc = {strip(k) : k \in DOMAIN U} \cup schema
            /\ \A k \in DOMAIN U :
                  (/\ strip(k) \notin schema
                   /\ \A k2 \in DOMAIN U : strip(k2) = strip(k) => k2 = k)
                  => SentDoc[strip(k)] = Json(U[k])

\* no type label, a field with the prefix, and a field that the entry and
\* the defaults both have
C9_Witness ==
    /\ AtSend
    /\ SentHook.appName = ""
    /\ SentHook.hookOnlyPrefix # ""
    /\ \E k \in DOMAIN SentGiven : HasPrefix(k, SentHook.hookOnlyPrefix)
    /\ \E k \in (DOMAIN SentGiven) \cap (DOMAIN SentHook.alwaysSentFields) :
          SentGiven[k] # SentHook.alwaysSentFields[k]

(***************************************************************************)
(* C10, as the claim states it: for each of message, level, type that is   *)
(* a field of the record, the document has the record's value under        *)
(* fields.K and the canonical value under K.                               *)
(***************************************************************************)
Canonical(K) ==
    CASE K = "message" -> call["p1"].entry.Message
      [] K = "level" -> LevelString(call["p1"].entry.Level)
      [] OTHER -> SentHook.appName

\* the JSON form of a value as it stands in the record
RawJson(v) ==
    IF v.kind = "string" THEN [json |-> "string", text |-> v.v]
    ELSE [json |-> "object", text |-> "{}"]

Renamed(K) ==
    /\ ("fields." \o K) \in DOMAIN SentDoc
    /\ SentDoc["fields." \o K] = RawJson(GivenAndDefaults[K])
    /\ K \in DOMAIN SentDoc
    /\ SentDoc[K] = [json |-> "string", text |-> Canonical(K)]

C10_Original ==
    AtSend => \A K \in {"message", "level", "type"} \cap (DOMAIN GivenAndDefaults) : Renamed(K)

(***************************************************************************)
(* C10, amended: for each of message and level, and of type when the hook  *)
(* has a type label, that is a field of the record, the document has the   *)
(* record's value under fields.K and the canonical value under K.          *)
(***************************************************************************)
C10_CollisionsRenamed ==
    AtSend =>
        \A K \in ({"message", "level"} \cup (IF SentHook.appName # "" THEN {"type"} ELSE {}))
                 \cap (DOMAIN GivenAndDefaults) : Renamed(K)

\* a record with a message and a type field, encoded with a type label
C10_Witness ==
    /\ AtSend
    /\ SentHook.appName # ""
    /\ {"message", "type"} \subseteq DOMAIN SentGiven

(***************************************************************************)
(* The record as the encoder reads it, and the key it copies a field under *)
(***************************************************************************)
\* the key of the document a field named k is copied under
Stripped(k) ==
    IF SentHook.hookOnlyPrefix # "" /\ HasPrefix(k, SentHook.hookOnlyPrefix)
    THEN SubSeq(k, Len(SentHook.hookOnlyPrefix) + 1, Len(k))
    ELSE k

\* the keys the encoder sets to the framework's own values
CanonicalKeys == {"message", "level"} \cup (IF SentHook.appName # "" THEN {"type"} ELSE {})

\* the value v stands in the document under key o, as text or in raw form
Carries(o, v) == o \in DOMAIN SentDoc /\ SentDoc[o] \in {Json(v), RawJson(v)}

(***************************************************************************)
(* C11: a field of the record whose key, after the prefix is stripped, is  *)
(* message, level or (with a type label) type is not lost to the canonical *)
(* value: the document carries its value under fields.message,             *)
(* fields.level or fields.type.                                            *)
(***************************************************************************)
C11_UserFieldsKept ==
    AtSend =>
        \A k \in DOMAIN GivenAndDefaults :
            Stripped(k) \in CanonicalKeys =>
                Carries("fields." \o Stripped(k), GivenAndDefaults[k])

\* a record whose only field named like a canonical key got its name by the
\* stripping of the prefix
C11_Witness ==
    /\ AtSend
    /\ "->message" \in DOMAIN SentGiven
    /\ "message" \notin DOMAIN GivenAndDefaults
    /\ SentHook.hookOnlyPrefix = "->"
    /\ "fields.message" \notin DOMAIN SentDoc
    /\ SentDoc["message"] = [json |-> "string", text |-> call["p1"].entry.Message]

(***************************************************************************)
(* C12: a field of the record whose value is an error stands in the        *)
(* document as the text of the error under every key that carries it: the  *)
(* key it is copied under and, when the field is named message, level or   *)
(* (with a type label) type, the key fields.message, fields.level or       *)
(* fields.type.  Nowhere does the document hold the error in raw form.     *)
(***************************************************************************)
C12_ErrorsAsText ==
    AtSend =>
        \A k \in DOMAIN GivenAndDefaults :
            GivenAndDefaults[k].kind = "error" =>
                /\ k \in CanonicalKeys =>
                      /\ ("fields." \o k) \in DOMAIN SentDoc
                      /\ SentDoc["fields." \o k] = Json(GivenAndDefaults[k])
                /\ \A o \in {Stripped(k), "fields." \o k} \cap (DOMAIN SentDoc) :
                      SentDoc[o].json = "string"

\* an error-valued field named message was encoded: fields.message holds
\* the empty object
C12_Witness ==
    /\ AtSend
    /\ "message" \in DOMAIN SentGiven
    /\ SentGiven["message"].kind = "error"
    /\ SentDoc["fields.message"] = [json |-> "object", text |-> "{}"]

\* an error-valued field that is not named like a canonical key was encoded:
\* the document holds its text
C12_PlainErrorWitness ==
    /\ AtSend
    /\ "x" \in DOMAIN SentGiven
    /\ SentGiven["x"].kind = "error"
    /\ SentDoc["x"] = [json |-> "string", text |-> SentGiven["x"].v]

(***************************************************************************)
(* C13: a Fire on a shipping hook returns an error exactly when the        *)
(* encoder failed on its entry.  The call that returns the error appends   *)
(* no task and leaves the channel, the connection pool and the Sender as   *)
(* they are; every task the Sender receives was accepted by a send, so no  *)
(* dial or write is made for it.  A call whose encoding succeeded returns  *)
(* nil whether its task was accepted or dropped and whatever dials and     *)
(* writes have failed, and no step of the Sender returns a Fire call.      *)
(***************************************************************************)
C13_ErrorIffEncodingFails ==
    /\ [](/\ ret.how \in {"enqueued", "dropped", "filtered"} => ret.err = ""
          /\ ret.how = "encode-error" => ret.err # "" /\ ~ret.hook.filtering
          /\ hist.dequeued + Len(entryChan) = hist.accepted)
    /\ [][\A p \in Producers :
            /\ (pc[p] = "encode" /\ pc'[p] = "idle") =>
                  /\ ret'.how = "encode-error"
                  /\ \E k \in DOMAIN call[p].entry.Data : call[p].entry.Data[k] = ChanV
                  /\ UNCHANGED << entryChan, formatBuff, connPool, sender, stderr, hist >>
                  /\ wire' = NoWrite
            /\ (pc[p] = "encode" /\ pc'[p] = "send") =>
                  /\ ret'.how = "none"
                  /\ \A k \in DOMAIN call[p].entry.Data : call[p].entry.Data[k] # ChanV
            /\ (pc[p] = "send" /\ pc'[p] = "idle") => ret'.err = ""]_vars
    /\ [][(sender' # sender \/ stderr' # stderr \/ connPool' # connPool) =>
            ret'.how = "none"]_vars

\* the encoder failed on the entry of a call made after a task had failed
\* in the Sender and while another task waits in the channel
C13_Witness ==
    /\ ret.how = "encode-error"
    /\ ret.err # ""
    /\ stderr >= 1
    /\ Len(entryChan) >= 1

(***************************************************************************)
(* C14: the Sender never stops: it is receiving, dialling, writing or      *)
(* putting a buffer back, its next step can always be taken once a task    *)
(* is in flight or waits in the channel, and after the Put that ends a     *)
(* task, failed or not, it is back at the receive.  A Put is reached only  *)
(* after a dial or a write for the task.  Under FairSpec, again and again  *)
(* every task accepted so far has been received and has had its buffer     *)
(* put back, so each accepted task gets there, however earlier tasks       *)
(* ended.                                                                  *)
(***************************************************************************)
C14_SenderKeepsRunning ==
    /\ []<>(hist.finished = hist.accepted)
    /\ [](/\ sender.pc \in {"recv", "write1", "dial", "write2", "put"}
          /\ (InFlight \/ entryChan # << >>) => ENABLED processEntryData
          /\ sender.pc = "put" => sender.dials + sender.writes >= 1)
    /\ [][sender.pc = "put" => sender'.pc = "recv" /\ hist'.finished = hist.finished + 1]_sender

\* the task received after a task whose send had failed was sent
C14_Witness ==
    /\ stderr = 1
    /\ hist.finished = 1
    /\ sender.pc = "put"
    /\ sender.err = ""
    /\ sender.d.seq = 2

(***************************************************************************)
(* C15: at most one task is in flight (received and its buffer not yet put *)
(* back), and a task is received only when none is; every write is the     *)
(* Sender's write for the task in flight, so no two writes are in progress *)
(* at once.  connPool changes only in the Sender's dial step: no step of a *)
(* Fire call, on a shipping or a filtering hook, and no WithPrefix,        *)
(* WithField or WithFields changes connPool, makes a write or moves the    *)
(* Sender.                                                                 *)
(***************************************************************************)
C15_OneInFlightPoolPrivate ==
    /\ [](/\ hist.dequeued - hist.finished \in {0, 1}
          /\ InFlight <=> hist.dequeued - hist.finished = 1
          /\ wire # NoWrite => InFlight /\ wire.seq = sender.d.seq)
    /\ [][/\ Dequeues => ~InFlight
          /\ connPool' # connPool => sender.pc = "dial" /\ sender'.pc = "write2"
          /\ wire' # NoWrite => sender.pc \in {"write1", "write2"} /\ Writes
          /\ (pc' # pc \/ hist'.fires # hist.fires \/ hist'.mutations # hist.mutations) =>
                /\ connPool' = connPool
                /\ sender' = sender
                /\ wire' = NoWrite]_vars

\* the hook was reconfigured while a task is in flight on a pooled
\* connection and another waits in the channel
C15_Witness ==
    /\ hooks # SpecHooks
    /\ hist.mutations >= 1
    /\ sender.pc = "write1"
    /\ Len(entryChan) >= 1

(***************************************************************************)
(* The hook of SpecSeq before and after a step                             *)
(***************************************************************************)
\* the defaults and the rest of the hook
Defaults == hooks["hook"].alwaysSentFields

DefaultsAfter == hooks'["hook"].alwaysSentFields

\* the step leaves the hook's prefix, endpoint, type label and mode alone
PrefixKept ==
    hooks'["hook"] = [hooks["hook"] EXCEPT !.alwaysSentFields = DefaultsAfter]

(***************************************************************************)
(* C16: a WithField(k, v) step leaves the defaults with k set to v, every  *)
(* other default as it was and the prefix as it was; a WithFields(F) step  *)
(* leaves every key of F set to F's value, the defaults not in F as they   *)
(* were and the prefix as it was; a WithPrefix(x) step leaves the prefix   *)
(* x and the defaults as they were.  A Fire that starts afterwards merges  *)
(* the hook's defaults as they are then, and when it returns the caller's  *)
(* entry was merged and filtered with the hook as it is then.              *)
(***************************************************************************)
C16_MutatorsFrame ==
    /\ [][/\ \A k \in {"x", "->x"}, v \in {StrV("no"), StrV("new")} :
                WithField("hook", k, v) =>
                    /\ DOMAIN DefaultsAfter = (DOMAIN Defaults) \cup {k}
                    /\ DefaultsAfter[k] = v
                    /\ \A j \in (DOMAIN Defaults) \ {k} : DefaultsAfter[j] = Defaults[j]
                    /\ PrefixKept
          /\ \A F \in {Fields1("x", StrV("new")), Fields2("x", StrV("new"), "->x", StrV("new"))} :
                WithFields("hook", F) =>
                    /\ DOMAIN DefaultsAfter = (DOMAIN Defaults) \cup (DOMAIN F)
                    /\ \A j \in DOMAIN F : DefaultsAfter[j] = F[j]
                    /\ \A j \in (DOMAIN Defaults) \ (DOMAIN F) : DefaultsAfter[j] = Defaults[j]
                    /\ PrefixKept
          /\ \A x \in SeqPrefixes :
                WithPrefix("hook", x) =>
                    /\ hooks'["hook"].hookOnlyPrefix = x
                    /\ DefaultsAfter = Defaults
                    /\ hooks'["hook"] = [hooks["hook"] EXCEPT !.hookOnlyPrefix = x]
          /\ hooks' # hooks => UNCHANGED << pc, call, entryChan, formatBuff, heap,
                                            connPool, sender, stderr >>
          /\ (pc["p1"] = "idle" /\ pc'["p1"] = "encode") =>
                \A j \in DOMAIN Defaults :
                    /\ j \in DOMAIN call'["p1"].entry.Data
                    /\ j \notin DOMAIN call'["p1"].given =>
                          call'["p1"].entry.Data[j] = Defaults[j]]_vars
    /\ [](ret.how # "none" => ret.hook = hooks["hook"])

\* a Fire returned on a hook whose defaults and prefix are not those any
\* constructor call gave it: the entry got the new default
C16_Witness ==
    /\ hist.mutations >= 1
    /\ ret.how = "enqueued"
    /\ ret.hook \notin SeqHooks
    /\ "x" \in (DOMAIN ret.Data) \ (DOMAIN ret.given)
    /\ ret.Data["x"] = StrV("new")

(***************************************************************************)
(* How the send of the task in flight ended                                *)
(***************************************************************************)
\* the dial for the task failed
DialFailed == sender.dials = 1 /\ ~sender.dialOk

\* the task's final outcome is a failure: its dial failed, or the last
\* write made for it failed
FinalFailure == DialFailed \/ ~sender.lastOk

(***************************************************************************)
(* C17: the step in which the dial for a task fails leaves connPool as it  *)
(* is, a pooled connection whose write had just failed included, and makes *)
(* no write; the Sender's next step is the Put of the task's buffer, so no *)
(* write follows the failed dial.  The step that puts the buffer back      *)
(* writes one message to os.Stderr exactly when the task's final outcome   *)
(* is a failure: after a failed dial or a failed write on the dialled      *)
(* connection, and not after a failed first write followed by a dial and   *)
(* a write that succeeded.                                                 *)
(***************************************************************************)
C17_DialFailureAbandons ==
    /\ [][/\ (Dials /\ ~sender'.dialOk) =>
                /\ connPool' = connPool
                /\ wire' = NoWrite
                /\ sender'.pc = "put"
                /\ sender'.writes = sender.writes
                /\ sender.pooled => connPool'[PoolKey(sender.d)] # NoConn
          /\ (sender.pc = "put" /\ sender' # sender) =>
                /\ formatBuff' = formatBuff \cup {sender.d.data}
                /\ stderr' = stderr + (IF FinalFailure THEN 1 ELSE 0)
                /\ connPool' = connPool
                /\ wire' = NoWrite
          /\ stderr' # stderr => sender.pc = "put"]_vars
    /\ [](sender.pc = "put" /\ DialFailed => sender.writes = (IF sender.pooled THEN 1 ELSE 0))

\* the write on the pooled connection failed and so did the redial: the
\* task is abandoned and the old connection is still in the pool
C17_Witness ==
    /\ sender.pc = "put"
    /\ sender.pooled
    /\ sender.writes = 1
    /\ DialFailed
    /\ connPool[PoolKey(sender.d)] # NoConn

\* the first write failed, the redial and the write on the new connection
\* succeeded: nothing is reported
C17_RecoveredWitness ==
    /\ sender.pc = "put"
    /\ sender.pooled
    /\ sender.writes = 2
    /\ sender.dialOk
    /\ sender.lastOk
    /\ ~FinalFailure

(***************************************************************************)
(* C18: the entry of connPool for a key changes only in a step in which    *)
(* the dial for a task of that key succeeds, and then holds a connection   *)
(* that was never in the pool before; every successful dial stores one.    *)
(* No write, failed or not, changes the pool, so the new connection stays  *)
(* when the write on it fails; a successful write on the pooled connection *)
(* ends the send with no dial.  No entry that holds a connection ever      *)
(* holds none again.  Every write for a task goes to the connection the    *)
(* pool holds under the task's own key, which was dialled for that key.    *)
(***************************************************************************)
C18_PoolEntryChanges ==
    /\ [][/\ \A k \in DOMAIN connPool :
                connPool'[k] # connPool[k] =>
                    /\ Dials
                    /\ sender'.dialOk
                    /\ k = PoolKey(sender.d)
                    /\ connPool'[k].ep = k
                    /\ connPool'[k].id > connPool[k].id
          /\ (Dials /\ sender'.dialOk) =>
                connPool'[PoolKey(sender.d)] # connPool[PoolKey(sender.d)]
          /\ Writes =>
                /\ connPool' = connPool
                /\ wire'.conn = connPool[PoolKey(sender.d)]
                /\ wire'.conn # NoConn
                /\ wire'.conn.ep = PoolKey(sender.d)
          /\ (sender.pc = "write1" /\ Writes /\ sender'.lastOk) =>
                sender'.pc = "put" /\ sender'.dials = 0
          /\ \A k \in DOMAIN connPool : connPool[k] # NoConn => connPool'[k] # NoConn
          /\ DOMAIN connPool' = DOMAIN connPool]_vars
    /\ [](\A k \in DOMAIN connPool : connPool[k] # NoConn => connPool[k].ep = k)

\* both endpoints have a connection; the one of the task in flight was
\* replaced after a failed write, and the write on the new one failed too
C18_Witness ==
    /\ sender.pc = "put"
    /\ sender.err = "write"
    /\ connPool[PoolKey(sender.d)].id = 2
    /\ \E k \in DOMAIN connPool : k # PoolKey(sender.d) /\ connPool[k].id = 1

(***************************************************************************)
(* Where a buffer is                                                       *)
(***************************************************************************)
\* the producers that hold buffer b in a Fire call
HeldBy(b) == {p \in Producers : pc[p] \in {"encode", "send"} /\ call[p].buff = b}

\* the places of the channel whose task has buffer b
QueuedAt(b) == {i \in 1 .. Len(entryChan) : entryChan[i].data = b}

\* the Sender holds b for the task in flight
SenderHas(b) == InFlight /\ sender.d.data = b

\* the number of places buffer b is in
Places(b) ==
    (IF b \in formatBuff THEN 1 ELSE 0) + Cardinality(HeldBy(b))
    + Cardinality(QueuedAt(b)) + (IF SenderHas(b) THEN 1 ELSE 0)

\* the documents a Fire call on a hook with task t's endpoint encodes
DocsFor(t) ==
    UNION {{r.out : r \in WriteWithPrefix(HookWriter(hooks[c[1]]),
                                          [c[2] EXCEPT !.Data = MergeDefaults(hooks[c[1]], @)],
                                          hooks[c[1]].hookOnlyPrefix)} :
            c \in {x \in SpecCalls : ~hooks[x[1]].filtering /\ PoolKey(hooks[x[1]]) = PoolKey(t)}}

(***************************************************************************)
(* C19: no buffer is in two places at once: idle in the pool, held by a    *)
(* producer inside Fire, in a task of the channel, held by the Sender for  *)
(* the task in flight.  A buffer is empty when its producer starts to      *)
(* encode; no step changes the contents of a buffer that is in the channel *)
(* or in flight, before or after the step; the buffer of every task in     *)
(* the channel or in flight holds one document and its newlines, the       *)
(* document of a Fire call on the hook the task was made for.              *)
(***************************************************************************)
C19_BufferOwnedOnce ==
    /\ [](/\ \A b \in BufIds : Places(b) <= 1
          /\ \A p \in Producers : pc[p] = "encode" => heap[call[p].buff] = << >>
          /\ \A i \in 1 .. Len(entryChan) :
                /\ entryChan[i].data \in BufIds
                /\ heap[entryChan[i].data] \in DocsFor(entryChan[i])
          /\ InFlight => heap[sender.d.data] \in DocsFor(sender.d))
    /\ [][\A b \in BufIds :
            heap'[b] # heap[b] =>
                /\ QueuedAt(b) = {} /\ ~SenderHas(b)
                /\ QueuedAt(b)' = {} /\ ~SenderHas(b)'
                /\ b \notin formatBuff']_vars

\* a buffer the Sender had put back was borrowed again: its producer is at
\* the send while one task is in flight and the pool is empty
C19_Witness ==
    /\ hist.finished = 1
    /\ formatBuff = {}
    /\ InFlight
    /\ \E p \in Producers : pc[p] = "send" /\ call[p].buff # sender.d.data
    /\ Cardinality(Referenced) = 2

(***************************************************************************)
(* What the encoder can write for the call that stands at the encoder      *)
(***************************************************************************)
\* the documents WriteWithPrefix may produce for the entry of the call
PossibleDocs ==
    {r.fields : r \in WriteWithPrefix(HookWriter(hooks[call["p1"].h]), call["p1"].entry,
                                      hooks[call["p1"].h].hookOnlyPrefix)}

\* two fields of the entry are copied under the same key
KeysCollide ==
    \E j, k \in DOMAIN call["p1"].entry.Data :
        j # k /\ OutKey(j, hooks[call["p1"].h].hookOnlyPrefix)
                 = OutKey(k, hooks[call["p1"].h].hookOnlyPrefix)

(***************************************************************************)
(* C20: the encoder is a function: for the record, the type label and the  *)
(* prefix of a call there is one set of key/value pairs it can write,      *)
(* also when two fields are copied under the same key and when a field is  *)
(* named like a key of the schema.                                         *)
(***************************************************************************)
C20_EncoderDeterministic ==
    pc["p1"] = "encode" => Cardinality(PossibleDocs) = 1

\* the fields "x" and "->x" of the record were encoded with the prefix "->"
\* and the document's "x" is the value of "->x": the other run of the same
\* call writes the value of "x"
C20_Witness ==
    /\ AtSend
    /\ SentHook.hookOnlyPrefix = "->"
    /\ {"x", "->x"} \subseteq DOMAIN SentGiven
    /\ SentGiven["x"] = StrV("yes")
    /\ SentGiven["->x"] = StrV("other")
    /\ SentDoc["x"] = [json |-> "string", text |-> "other"]

\* the same call, the other outcome
C20_OtherOutcomeWitness ==
    /\ AtSend
    /\ SentHook.hookOnlyPrefix = "->"
    /\ {"x", "->x"} \subseteq DOMAIN SentGiven
    /\ SentGiven["x"] = StrV("yes")
    /\ SentGiven["->x"] = StrV("other")
    /\ SentDoc["x"] = [json |-> "string", text |-> "yes"]

\* without two fields copied under the same key there is one document,
\* fields named like keys of the schema included
C20_DeterministicWithoutCollision ==
    (pc["p1"] = "encode" /\ ~KeysCollide) => Cardinality(PossibleDocs) = 1

\* a record with fields named @version and fields.message at the encoder
C20_SchemaNamesWitness ==
    /\ pc["p1"] = "encode"
    /\ {"@version", "fields.message"} \subseteq DOMAIN call["p1"].entry.Data

====
